---- MODULE Spec2Model ----
(***************************************************************************)
(* Face-indexed photo store: the encoding store (database_manager.py), the *)
(* indexing pipeline, the similarity search and the file operations        *)
(* (photo_manager.py), with the extractor of face_recognition_engine.py.   *)
(*                                                                         *)
(* Strings are sequences of one-character strings, so that str.startswith, *)
(* os.path.basename/dirname/join/splitext and the f-string of the          *)
(* collision policy are computed as Python computes them.  Embeddings are  *)
(* points of a one-dimensional space in hundredths; the Euclidean distance *)
(* of two points is the absolute difference.                               *)
(***************************************************************************)
EXTENDS Integers, Sequences, FiniteSets, TLC

VARIABLES fs, db, issued, wk, last, edits, call, res, pm, bt, poll, sm

vars == <<fs, db, issued, wk, last, edits, call, res, pm, bt, poll, sm>>

\* Python's None; an Optional[int] that is set is the one-element tuple.
None == <<>>

(***************************************************************************)
(* Bounds of the model.                                                    *)
(***************************************************************************)
MaxTime == 2
MaxEdits == 1
MaxImageRows == 2
MaxFolderRows == 3
MaxSources == 2
MaxFiles == 7
MaxBatch == 2

(***************************************************************************)
(* str and os.path                                                         *)
(***************************************************************************)
startswith(s, prefix) ==
    /\ Len(prefix) <= Len(s)
    /\ SubSeq(s, 1, Len(prefix)) = prefix

rfind(s, c) ==
    LET hits == {i \in 1..Len(s) : s[i] = c}
    IN  IF hits = {} THEN 0 ELSE CHOOSE i \in hits : \A j \in hits : j <= i

RECURSIVE rstrip(_, _)
rstrip(s, c) ==
    IF s # <<>> /\ s[Len(s)] = c THEN rstrip(SubSeq(s, 1, Len(s) - 1), c) ELSE s

basename(p) == SubSeq(p, rfind(p, "/") + 1, Len(p))

dirname(p) ==
    LET head == SubSeq(p, 1, rfind(p, "/"))
    IN  IF head # <<>> /\ (\E k \in 1..Len(head) : head[k] # "/")
        THEN rstrip(head, "/") ELSE head

join(a, b) ==
    IF b # <<>> /\ b[1] = "/" THEN b
    ELSE IF a = <<>> \/ a[Len(a)] = "/" THEN a \o b
    ELSE a \o <<"/">> \o b

\* <<root, ext>>: the extension starts at the last dot of the last component,
\* unless only dots precede it there.
splitext(p) ==
    LET sepIndex == rfind(p, "/")
        dotIndex == rfind(p, ".")
    IN  IF /\ dotIndex > sepIndex
           /\ \E k \in (sepIndex + 1)..(dotIndex - 1) : p[k] # "."
        THEN <<SubSeq(p, 1, dotIndex - 1), SubSeq(p, dotIndex, Len(p))>>
        ELSE <<p, <<>> >>

lowerChar(c) ==
    CASE c = "J" -> "j" [] c = "P" -> "p" [] c = "G" -> "g" [] OTHER -> c

lower(s) == [k \in 1..Len(s) |-> lowerChar(s[k])]

Digit(d) == CASE d = 0 -> "0" [] d = 1 -> "1" [] d = 2 -> "2" [] d = 3 -> "3"
              [] d = 4 -> "4" [] d = 5 -> "5" [] d = 6 -> "6" [] d = 7 -> "7"
              [] d = 8 -> "8" [] d = 9 -> "9"

RECURSIVE str(_)
str(n) == IF n < 10 THEN <<Digit(n)>> ELSE str(n \div 10) \o <<Digit(n % 10)>>

(***************************************************************************)
(* The files of the model.                                                 *)
(***************************************************************************)
DirP == <<"/", "p">>
ExtJpg == <<".", "j", "p", "g">>
ExtGif == <<".", "g", "i", "f">>
FileA == DirP \o <<"/", "a">> \o ExtJpg
FileG == DirP \o <<"/", "g">> \o ExtGif
DirPQ == <<"/", "p", "q">>
DirR == <<"/", "r">>
FileC == DirPQ \o <<"/", "c">> \o ExtJpg
FileD == DirR \o <<"/", "d">> \o ExtJpg

\* The files the indexing specifications work on, those the search
\* specification works on, and the folders a user adds to the search scope.
IndexPaths == {FileA, FileG}
SearchPaths == {FileA, FileC, FileD}
DirS == <<"/", "s">>
DirT == <<"/", "t">>
DirD == <<"/", "d">>
FileSX == DirS \o <<"/", "x">> \o ExtJpg
FileTX == DirT \o <<"/", "x">> \o ExtJpg
FileSX1 == DirS \o <<"/", "x", "_", "1">> \o ExtJpg
FileDX == DirD \o <<"/", "x">> \o ExtJpg

\* The files the file operations are asked to transfer.
SourcePaths == {FileSX, FileTX, FileSX1, FileDX}
\* The sources that the indexing pipeline is run on.
IndexedSources == {FileSX}
\* A folder inside /p and a file of it: the folders a user adds to the search
\* scope may be nested.
DirPN == DirP \o <<"/", "n">>
FileN == DirPN \o <<"/", "n">> \o ExtJpg
ScanFolders == {DirP, DirPN}
\* The folder that _sync_local_webcam_folder reads and two images in it.
DirW == <<"/", "w">>
FileW1 == DirW \o <<"/", "a">> \o ExtJpg
FileW2 == DirW \o <<"/", "b">> \o ExtJpg
WebcamPaths == {FileW1, FileW2}
AllPaths == IndexPaths \cup SearchPaths \cup SourcePaths \cup {FileN} \cup WebcamPaths
Folders == {DirP, DirR}

supported_formats ==
    { <<".", "j", "p", "g">>, <<".", "j", "p", "e", "g">>, <<".", "p", "n", "g">>,
      <<".", "b", "m", "p">>, <<".", "t", "i", "f", "f">>, <<".", "t", "i", "f">> }

\* What a file holds: its size, whether the image decodes, and the faces the
\* detector finds in it (bounding region and embedding).
Face(e) == [loc |-> <<0, e + 10, 10, e>>, enc |-> e]
NoFaces == [size |-> 1, readable |-> TRUE, faces |-> <<>>]
OneFace == [size |-> 2, readable |-> TRUE, faces |-> <<Face(30)>>]
TwoFaces == [size |-> 3, readable |-> TRUE, faces |-> <<Face(30), Face(50)>>]
Corrupt == [size |-> 4, readable |-> FALSE, faces |-> <<>>]
Contents == {NoFaces, OneFace, TwoFaces, Corrupt}
NearFaces == [size |-> 5, readable |-> TRUE, faces |-> <<Face(45), Face(60)>>]
FarFace == [size |-> 6, readable |-> TRUE, faces |-> <<Face(70)>>]

Directory == [size |-> 0, readable |-> FALSE, faces |-> <<>>]

Times == 1..MaxTime

exists(f, p) == p \in DOMAIN f

(***************************************************************************)
(* database_manager.py: the three tables and sqlite_sequence.  No          *)
(* connection sets PRAGMA foreign_keys, so the REFERENCES ... ON DELETE    *)
(* CASCADE clause of face_encodings is not enforced.  Every method opens   *)
(* its own connection and commits on its own: each is one transaction.     *)
(* A method whose storage layer faults (fault = TRUE) takes its except     *)
(* branch: nothing is committed and the failure value is returned.         *)
(***************************************************************************)
init_database ==
    [images |-> {}, face_encodings |-> {}, search_folders |-> {},
     seq |-> [images |-> 0, face_encodings |-> 0, search_folders |-> 0]]

\* The rows of a table as a list in rowid order.
RECURSIVE fetchall(_)
fetchall(rows) ==
    IF rows = {} THEN <<>>
    ELSE LET first == CHOOSE r \in rows : \A q \in rows : r.id <= q.id
         IN  <<first>> \o fetchall(rows \ {first})

pickle_dumps(x) == <<"pickle", x>>
pickle_loads(b) == b[2]
json_dumps(x) == <<"json", x>>
json_loads(j) == j[2]

add_search_folder(d, folder_path, fault) ==
    IF fault THEN [db |-> d, ret |-> FALSE]
    ELSE LET id == d.seq.search_folders + 1
             row == [id |-> id, folder_path |-> folder_path, is_active |-> 1]
         IN  [db |-> [d EXCEPT
                        !.search_folders =
                            {r \in @ : r.folder_path # folder_path} \cup {row},
                        !.seq.search_folders = id],
              ret |-> TRUE]

get_search_folders(d, fault) ==
    IF fault THEN <<>>
    ELSE LET rows == fetchall({r \in d.search_folders : r.is_active = 1})
         IN  [k \in 1..Len(rows) |-> rows[k].folder_path]

\* A variant that deletes the row of the folder.
remove_search_folder_delete(d, folder_path, fault) ==
    IF fault THEN [db |-> d, ret |-> FALSE]
    ELSE [db |-> [d EXCEPT !.search_folders = {r \in @ : r.folder_path # folder_path}],
          ret |-> TRUE]

remove_search_folder(d, folder_path, fault) ==
    IF fault THEN [db |-> d, ret |-> FALSE]
    ELSE [db |-> [d EXCEPT !.search_folders =
                    {IF r.folder_path = folder_path
                     THEN [r EXCEPT !.is_active = 0] ELSE r : r \in @}],
          ret |-> TRUE]

\* INSERT OR REPLACE on the UNIQUE file_path: the row of that path, if any, is
\* deleted and a new row is inserted under the next AUTOINCREMENT id.
\* A variant without AUTOINCREMENT: the new row takes the largest id in the
\* table plus one, so the id of a replaced row is issued again.
add_image_record_reuse_id(d, file_path, file_name, file_size, modification_time, face_count, folder_path, fault) ==
    IF fault THEN [db |-> d, ret |-> None]
    ELSE LET kept == {r \in d.images : r.file_path # file_path}
             id == IF kept = {} THEN 1
                   ELSE 1 + CHOOSE n \in {r.id : r \in kept} : \A r \in kept : r.id <= n
             row == [id |-> id, file_path |-> file_path, file_name |-> file_name,
                     file_size |-> file_size,
                     modification_time |-> modification_time,
                     face_count |-> face_count, folder_path |-> folder_path]
         IN  [db |-> [d EXCEPT !.images = kept \cup {row},
                               !.seq.images = @ + 1],
              ret |-> <<id>>]

\* A variant that inserts without replacing the row of the same path.
add_image_record_insert_only(d, file_path, file_name, file_size, modification_time, face_count, folder_path, fault) ==
    IF fault THEN [db |-> d, ret |-> None]
    ELSE LET id == d.seq.images + 1
             row == [id |-> id, file_path |-> file_path, file_name |-> file_name,
                     file_size |-> file_size,
                     modification_time |-> modification_time,
                     face_count |-> face_count, folder_path |-> folder_path]
         IN  [db |-> [d EXCEPT !.images = @ \cup {row}, !.seq.images = id],
              ret |-> <<id>>]

\* INSERT OR REPLACE on the UNIQUE file_path: the row of the same path goes,
\* and the new row takes the next AUTOINCREMENT id.
add_image_record(d, file_path, file_name, file_size, modification_time, face_count, folder_path, fault) ==
    IF fault THEN [db |-> d, ret |-> None]
    ELSE LET id == d.seq.images + 1
             row == [id |-> id, file_path |-> file_path, file_name |-> file_name,
                     file_size |-> file_size,
                     modification_time |-> modification_time,
                     face_count |-> face_count, folder_path |-> folder_path]
         IN  [db |-> [d EXCEPT
                        !.images = {r \in @ : r.file_path # file_path} \cup {row},
                        !.seq.images = id],
              ret |-> <<id>>]

add_face_encoding(d, image_id, face_index, encoding, face_location, confidence_score, fault) ==
    IF fault THEN [db |-> d, ret |-> FALSE]
    ELSE LET id == d.seq.face_encodings + 1
             row == [id |-> id, image_id |-> image_id, face_index |-> face_index,
                     encoding_data |-> pickle_dumps(encoding),
                     face_location |-> json_dumps(face_location),
                     confidence_score |-> confidence_score]
         IN  [db |-> [d EXCEPT !.face_encodings = @ \cup {row},
                               !.seq.face_encodings = id],
              ret |-> TRUE]

get_image_by_path(d, file_path, fault) ==
    IF fault THEN None
    ELSE LET rows == fetchall({r \in d.images : r.file_path = file_path})
         IN  IF rows = <<>> THEN None ELSE rows[1]

\* face_encodings JOIN images: a row of face_encodings whose image_id is the
\* id of no row of images is not returned.
get_all_face_encodings(d, fault) ==
    IF fault THEN <<>>
    ELSE LET joined == {<<fe, i>> \in d.face_encodings \X d.images :
                            fe.image_id = i.id}
             rows == fetchall({[id |-> j[1].id, fe |-> j[1], i |-> j[2]] :
                                  j \in joined})
         IN  [k \in 1..Len(rows) |->
                [id |-> rows[k].fe.id,
                 image_id |-> rows[k].fe.image_id,
                 face_index |-> rows[k].fe.face_index,
                 encoding |-> pickle_loads(rows[k].fe.encoding_data),
                 face_location |-> json_loads(rows[k].fe.face_location),
                 confidence_score |-> rows[k].fe.confidence_score,
                 file_path |-> rows[k].i.file_path,
                 file_name |-> rows[k].i.file_name]]

\* A variant with a strict comparison of the modification times.
is_image_processed_strict(d, file_path, modification_time, fault) ==
    LET image_record == get_image_by_path(d, file_path, fault)
    IN  /\ image_record # None
        /\ image_record.modification_time > modification_time

is_image_processed(d, file_path, modification_time, fault) ==
    LET image_record == get_image_by_path(d, file_path, fault)
    IN  /\ image_record # None
        /\ image_record.modification_time >= modification_time

\* A variant that reports a path without a row as a failure.
delete_image_and_faces_strict(d, file_path, fault) ==
    LET rows == fetchall({r \in d.images : r.file_path = file_path})
    IN  IF fault \/ rows = <<>> THEN [db |-> d, ret |-> FALSE]
        ELSE [db |-> [d EXCEPT
                        !.face_encodings = {fe \in @ : fe.image_id # rows[1].id},
                        !.images = {r \in @ : r.id # rows[1].id}],
              ret |-> TRUE]

delete_image_and_faces(d, file_path, fault) ==
    IF fault THEN [db |-> d, ret |-> FALSE]
    ELSE LET rows == fetchall({r \in d.images : r.file_path = file_path})
         IN  IF rows = <<>> THEN [db |-> d, ret |-> TRUE]
             ELSE LET image_id == rows[1].id
                  IN  [db |-> [d EXCEPT
                                 !.face_encodings =
                                     {fe \in @ : fe.image_id # image_id},
                                 !.images = {r \in @ : r.id # image_id}],
                       ret |-> TRUE]

\* The calls of delete_image_and_faces that can raise: 0 none, 1 connect
\* (line 310), 2 the SELECT (313), 3 the DELETE of the face rows (320), 4 the
\* DELETE of the images row (323), 5 the commit (325).
DeleteFaultPoints == 0..5

\* delete_image_and_faces on a connection that applied every statement to the
\* store at once (isolation_level = None).
delete_image_and_faces_autocommit(d, file_path, fault_at) ==
    LET rows == fetchall({r \in d.images : r.file_path = file_path})
        image_id == rows[1].id
        faces_deleted == [d EXCEPT !.face_encodings = {fe \in @ : fe.image_id # image_id}]
        image_deleted == [faces_deleted EXCEPT !.images = {r \in @ : r.id # image_id}]
    IN  IF fault_at \in {1, 2} THEN [db |-> d, ret |-> FALSE]
        ELSE IF rows = <<>> THEN [db |-> d, ret |-> TRUE]
        ELSE IF fault_at = 3 THEN [db |-> d, ret |-> FALSE]
        ELSE IF fault_at = 4 THEN [db |-> faces_deleted, ret |-> FALSE]
        ELSE IF fault_at = 5 THEN [db |-> image_deleted, ret |-> FALSE]
        ELSE [db |-> image_deleted, ret |-> TRUE]

\* delete_image_and_faces statement by statement.  The statements change the
\* connection's pending transaction; the store changes at conn.commit().  A
\* call that raises ends in the handler of lines 331-333: the connection is
\* dropped with its pending changes and the store is as it was.
delete_image_and_faces_at(d, file_path, fault_at) ==
    LET rows == fetchall({r \in d.images : r.file_path = file_path})
        image_id == rows[1].id
        faces_deleted == [d EXCEPT !.face_encodings = {fe \in @ : fe.image_id # image_id}]
        image_deleted == [faces_deleted EXCEPT !.images = {r \in @ : r.id # image_id}]
    IN  IF fault_at \in {1, 2} THEN [db |-> d, ret |-> FALSE]
        ELSE IF rows = <<>> THEN [db |-> d, ret |-> TRUE]
        ELSE IF fault_at \in {3, 4, 5} THEN [db |-> d, ret |-> FALSE]
        ELSE [db |-> image_deleted, ret |-> TRUE]

\* os.path.getsize(self.db_path), in pages: one for the schema and one per row.
getsize(d) ==
    1 + Cardinality(d.images) + Cardinality(d.face_encodings) + Cardinality(d.search_folders)

zeroed_stats ==
    [total_images |-> 0, total_faces |-> 0, active_folders |-> 0, database_size |-> 0]

get_database_stats(d, fault) ==
    IF fault THEN zeroed_stats
    ELSE [total_images |-> Cardinality(d.images),
          total_faces |-> Cardinality(d.face_encodings),
          active_folders |-> Cardinality(d.search_folders),
          database_size |-> getsize(d)]

\* _get_connection has no handler: the error of sqlite3.connect reaches the
\* caller.
_get_connection(d, fault) ==
    IF fault THEN [raised |-> TRUE, conn |-> None]
    ELSE [raised |-> FALSE, conn |-> d]

(***************************************************************************)
(* face_recognition_engine.py                                              *)
(***************************************************************************)
is_supported_image(file_path) ==
    splitext(lower(file_path))[2] \in supported_formats

\* The extractor proper.  load_image_file raising on a file that does not
\* decode is caught here and becomes ([], []).
get_face_locations_and_encodings(file) ==
    IF file.readable
    THEN [face_locations |-> [k \in 1..Len(file.faces) |-> file.faces[k].loc],
          face_encodings |-> [k \in 1..Len(file.faces) |-> file.faces[k].enc]]
    ELSE [face_locations |-> <<>>, face_encodings |-> <<>>]

process_image_for_faces(f, image_path) ==
    IF ~is_supported_image(image_path) THEN [error |-> "Unsupported image format"]
    ELSE IF ~exists(f, image_path) THEN [error |-> "File not found"]
    ELSE LET got == get_face_locations_and_encodings(f[image_path].content)
         IN  [face_count |-> Len(got.face_locations),
              face_locations |-> got.face_locations,
              face_encodings |-> got.face_encodings]

has_error(face_data) == "error" \in DOMAIN face_data

\* Whether process_image_for_faces reaches the extractor, and whether the
\* extractor then fails on the file.
extractor_invoked(f, image_path) ==
    is_supported_image(image_path) /\ exists(f, image_path)

extractor_fails(f, image_path) ==
    extractor_invoked(f, image_path) /\ ~f[image_path].content.readable

(***************************************************************************)
(* photo_manager.py, search_similar_faces.  Distances and similarities are *)
(* in hundredths: One is the 1.0 of line 173.                              *)
(***************************************************************************)
One == 100
DefaultTolerance == 60
DefaultMinSimilarity == 55

\* face_recognition.face_distance: the Euclidean norm of the difference.
face_distance(known_encoding, unknown_encoding) ==
    IF known_encoding >= unknown_encoding
    THEN known_encoding - unknown_encoding
    ELSE unknown_encoding - known_encoding

\* Lines 160-169: with restrict_to_current_folder and a non-empty list of
\* active folders, a row is kept only if its file path starts with one of them.
\* A variant without the folder filter.
image_in_any_folder(file_path, restrict_to_current_folder, current_folders) == TRUE

image_in_current_folder(file_path, restrict_to_current_folder, current_folders) ==
    restrict_to_current_folder /\ current_folders # <<>> =>
        \E k \in 1..Len(current_folders) : startswith(file_path, current_folders[k])

\* Line 176.
\* A variant with the tolerance gate alone.
is_match_tolerance_only(distance, similarity, tolerance, min_similarity) ==
    distance <= tolerance

\* A variant with the similarity comparison turned round.
is_match_at_most(distance, similarity, tolerance, min_similarity) ==
    distance <= tolerance /\ similarity <= min_similarity

is_match(distance, similarity, tolerance, min_similarity) ==
    distance <= tolerance /\ similarity >= min_similarity

\* A variant without the sort.
unsorted(matches) == matches

\* list.sort(key = similarity, reverse = True): descending and stable.
RECURSIVE sort_by_similarity(_)
sort_by_similarity(matches) ==
    IF matches = <<>> THEN <<>>
    ELSE LET n == Len(matches)
             x == matches[n]
             rest == sort_by_similarity(SubSeq(matches, 1, n - 1))
             keep == {k \in 1..Len(rest) : rest[k].similarity >= x.similarity}
             at == IF keep = {} THEN 0
                   ELSE CHOOSE k \in keep : \A j \in keep : j <= k
         IN  SubSeq(rest, 1, at) \o <<x>> \o SubSeq(rest, at + 1, Len(rest))

search_similar_faces(d, reference_encoding, tolerance, min_similarity, restrict_to_current_folder, fault) ==
    LET all_encodings == get_all_face_encodings(d, fault)
        current_folders == IF restrict_to_current_folder
                           THEN get_search_folders(d, fault) ELSE <<>>
        match(face_data) ==
            LET distance == face_distance(face_data.encoding, reference_encoding)
            IN  [file_path |-> face_data.file_path,
                 file_name |-> face_data.file_name,
                 face_location |-> face_data.face_location,
                 distance |-> distance,
                 similarity |-> One - distance,
                 face_index |-> face_data.face_index]
        found(face_data) ==
            /\ image_in_current_folder(face_data.file_path, restrict_to_current_folder, current_folders)
            /\ is_match(match(face_data).distance, match(face_data).similarity, tolerance, min_similarity)
        hits == SelectSeq(all_encodings, found)
    IN  sort_by_similarity([k \in 1..Len(hits) |-> match(hits[k])])

(***************************************************************************)
(* photo_manager.py, copy_files and move_files: the collision policy.      *)
(***************************************************************************)
\* The loop of lines 213-218 (254-259): while dest_path exists, the next
\* candidate is base_name, "_", the counter and ext.
RECURSIVE free_dest_path(_, _, _, _, _, _)
free_dest_path(f, destination_folder, base_name, ext, dest_path, counter) ==
    IF exists(f, dest_path)
    THEN free_dest_path(f, destination_folder, base_name, ext, join(destination_folder, base_name \o <<"_">> \o str(counter) \o ext), counter + 1)
    ELSE dest_path

\* A variant without the collision loop.
first_dest_path(f, source_path, destination_folder) ==
    join(destination_folder, basename(source_path))

\* Lines 209-218 (250-259).
choose_dest_path(f, source_path, destination_folder) ==
    LET file_name == basename(source_path)
        parts == splitext(file_name)
    IN  free_dest_path(f, destination_folder, parts[1], parts[2], join(destination_folder, file_name), 1)

\* shutil.copy2: the destination gets the content and the modification time
\* of the source.
copy2(f, source_path, dest_path) ==
    [q \in DOMAIN f \cup {dest_path} |->
        IF q = dest_path THEN f[source_path] ELSE f[q]]

\* shutil.move to a path that does not exist: a rename.
move(f, source_path, dest_path) ==
    [q \in (DOMAIN f \cup {dest_path}) \ {source_path} |->
        IF q = dest_path THEN f[source_path] ELSE f[q]]

makedirs(f, folder) ==
    [q \in DOMAIN f \cup {folder} |->
        IF q = folder THEN [mtime |-> 1, content |-> Directory] ELSE f[q]]

(***************************************************************************)
(* photo_manager.py, scan_folders_for_images.                              *)
(***************************************************************************)
\* The elements of a set of paths in the order a directory listing gives
\* them (any fixed order).
RECURSIVE listdir(_)
listdir(S) ==
    IF S = {} THEN <<>>
    ELSE LET x == CHOOSE y \in S : TRUE IN <<x>> \o listdir(S \ {x})

\* os.walk(folder), top-down, joined as line 38 joins root and file: the files
\* of the folder, then the files of its subfolders.
walk(f, folder) ==
    LET under == {p \in DOMAIN f : /\ f[p].content # Directory
                                   /\ startswith(p, folder \o <<"/">>)}
        here == {p \in under : dirname(p) = folder}
    IN  listdir(here) \o listdir(under \ here)

\* os.path.exists(folder), the folders being those that hold a file.
folder_exists(f, folder) ==
    exists(f, folder) \/ \E p \in DOMAIN f : startswith(p, folder \o <<"/">>)

\* Lines 30-44, from folder k on.
RECURSIVE scan_from(_, _, _)
scan_from(f, folders, k) ==
    IF k > Len(folders) THEN <<>>
    ELSE (IF folder_exists(f, folders[k])
          THEN SelectSeq(walk(f, folders[k]), is_supported_image)
          ELSE <<>>) \o scan_from(f, folders, k + 1)

scan_folders_for_images(f, folders) == scan_from(f, folders, 1)

(***************************************************************************)
(* State.                                                                  *)
(*   fs      the files on disk: path -> [mtime, content]                   *)
(*   db      the SQLite database                                           *)
(*   wk      per indexing thread, the position and locals of its           *)
(*           index_image call                                              *)
(*   call    the last store operation a file-operation caller made         *)
(*   edits   how many times the environment has changed a file             *)
(* History, read by the properties only:                                   *)
(*   issued  image id -> the path add_image_record issued it for           *)
(*   last    path -> the outcome of the last index_image call on it that   *)
(*           returned, while nothing else has touched the path since       *)
(* res is the search that has returned, with its arguments, or the file    *)
(* operation that is running or has returned: its arguments, its position  *)
(* in source_paths, its counters; targets (the destination path of each    *)
(* transfer made) and overwrote (a transfer wrote to a path that existed)   *)
(* are history.                                                            *)
(*   pm      the progress fields of the PhotoManager and the holder of its *)
(*           indexing_lock; access (history) is the last access to a       *)
(*           progress field: who, at which line, and who held the lock     *)
(*   bt      the index_images_batch call: its arguments, its position,     *)
(*           the results of the futures in completion order, how many of   *)
(*           them the loop has taken, its counters and its return value;   *)
(*           stop_at (history) is how many futures had completed when a    *)
(*           stop was requested during the call, or -1                     *)
(*   poll    the thread that polls get_indexing_progress: the pair it got  *)
(*           last; prev (history) is the value it got before, when both    *)
(*           were read within the running batch call, or -1                *)
(*   sm      the sync manager: its stop flag, sync_progress, and the        *)
(*           position and locals of the sync_drive_folder call             *)
(***************************************************************************)
Workers == {"w1", "w2"}

Idle == [pc |-> "idle", path |-> <<>>, mtime |-> 0, size |-> 0,
         face_data |-> <<>>, image_id |-> 0, i |-> 0, ret |-> FALSE,
         extracted |-> FALSE, failed |-> FALSE, stale |-> FALSE,
         prev |-> None]

\* What the store holds for a path: its images row and every face_encodings
\* row written under an id issued for the path.
View(d, iss, p) ==
    [rec |-> get_image_by_path(d, p, FALSE),
     rows |-> {fe \in d.face_encodings :
                  fe.image_id \in DOMAIN iss /\ iss[fe.image_id] = p}]

\* Another actor than w touched path p: a call running on p is no longer the
\* second of two calls in a row (prev), nor will it be the first (stale).
Touch(W, p, w) ==
    [v \in Workers |->
        IF v # w /\ W[v].path = p
        THEN [W[v] EXCEPT !.prev = None, !.stale = TRUE] ELSE W[v]]

(***************************************************************************)
(* photo_manager.py, index_image, one action per store or file access.     *)
(***************************************************************************)
\* os.path.exists and os.stat (lines 52-60).
IndexStart(w, p) ==
    /\ wk[w].pc = "idle"
    /\ wk' = [wk EXCEPT ![w] =
                IF ~exists(fs, p)
                THEN [Idle EXCEPT !.pc = "done", !.path = p, !.ret = FALSE,
                                  !.prev = last[p]]
                ELSE [Idle EXCEPT !.pc = "check", !.path = p,
                                  !.mtime = fs[p].mtime,
                                  !.size = fs[p].content.size,
                                  !.prev = last[p]]]
    /\ UNCHANGED <<fs, db, issued, last, edits, call, res, pm, bt, poll, sm>>

\* is_image_processed (lines 63-64).
IndexCheck(w, fault) ==
    /\ wk[w].pc = "check"
    /\ wk' = [wk EXCEPT ![w] =
                IF is_image_processed(db, wk[w].path, wk[w].mtime, fault)
                THEN [@ EXCEPT !.pc = "done", !.ret = TRUE]
                ELSE [@ EXCEPT !.pc = "extract"]]
    /\ UNCHANGED <<fs, db, issued, last, edits, call, res, pm, bt, poll, sm>>

\* process_image_for_faces (lines 67-71).
IndexExtract(w) ==
    /\ wk[w].pc = "extract"
    /\ LET face_data == process_image_for_faces(fs, wk[w].path)
       IN  wk' = [wk EXCEPT ![w] =
                IF has_error(face_data)
                THEN [@ EXCEPT !.pc = "done", !.ret = FALSE]
                ELSE [@ EXCEPT !.pc = "upsert", !.face_data = face_data,
                               !.extracted = TRUE,
                               !.failed = extractor_fails(fs, wk[w].path)]]
    /\ UNCHANGED <<fs, db, issued, last, edits, call, res, pm, bt, poll, sm>>

\* add_image_record (lines 74-80); with no face to add the loop of lines 83-84
\* is empty and the call returns True.
IndexUpsert(w, fault) ==
    /\ wk[w].pc = "upsert"
    /\ db.seq.images < MaxImageRows
    /\ LET c == wk[w]
           r == add_image_record(db, c.path, basename(c.path), c.size, c.mtime, c.face_data.face_count, dirname(c.path), fault)
       IN  IF r.ret = None
           THEN /\ wk' = [wk EXCEPT ![w] = [@ EXCEPT !.pc = "done", !.ret = FALSE]]
                /\ UNCHANGED <<db, issued, last>>
           ELSE /\ db' = r.db
                /\ issued' = Append(issued, c.path)
                /\ wk' = Touch([wk EXCEPT ![w] =
                                  IF c.face_data.face_count = 0
                                  THEN [@ EXCEPT !.pc = "done", !.ret = TRUE,
                                                 !.image_id = r.ret[1]]
                                  ELSE [@ EXCEPT !.pc = "faces",
                                                 !.image_id = r.ret[1], !.i = 0]],
                               c.path, w)
                /\ last' = [last EXCEPT ![c.path] = None]
    /\ UNCHANGED <<fs, edits, call, res, pm, bt, poll, sm>>

\* One turn of the loop of lines 83-84: add_face_encoding, its return value
\* dropped; after the last face the call returns True (line 86).
IndexAddFace(w, fault) ==
    /\ wk[w].pc = "faces"
    /\ LET c == wk[w]
           k == c.i + 1
           r == add_face_encoding(db, c.image_id, c.i, c.face_data.face_encodings[k], c.face_data.face_locations[k], 1, fault)
       IN  /\ db' = r.db
           /\ wk' = Touch([wk EXCEPT ![w] =
                             IF k = c.face_data.face_count
                             THEN [@ EXCEPT !.pc = "done", !.ret = TRUE, !.i = k]
                             ELSE [@ EXCEPT !.i = k]],
                          c.path, w)
           /\ last' = [last EXCEPT ![c.path] = None]
    /\ UNCHANGED <<fs, issued, edits, call, res, pm, bt, poll, sm>>

\* The caller takes the result.
IndexReturn(w) ==
    /\ wk[w].pc = "done"
    /\ last' = [last EXCEPT ![wk[w].path] =
                  IF wk[w].stale THEN None
                  ELSE [ret |-> wk[w].ret,
                        view |-> View(db, issued, wk[w].path)]]
    /\ wk' = [wk EXCEPT ![w] = Idle]
    /\ UNCHANGED <<fs, db, issued, edits, call, res, pm, bt, poll, sm>>

Quiet == \A w \in Workers : wk[w].pc = "idle"

(***************************************************************************)
(* The environment: a file is written (any content, any modification time) *)
(* or removed.                                                             *)
(***************************************************************************)
WriteFile(p, t, c, interleaved) ==
    /\ interleaved \/ Quiet
    /\ edits < MaxEdits
    /\ ~(exists(fs, p) /\ fs[p] = [mtime |-> t, content |-> c])
    /\ fs' = [q \in DOMAIN fs \cup {p} |->
                IF q = p THEN [mtime |-> t, content |-> c] ELSE fs[q]]
    /\ edits' = edits + 1
    /\ wk' = Touch(wk, p, "env")
    /\ last' = [last EXCEPT ![p] = None]
    /\ UNCHANGED <<db, issued, call, res, pm, bt, poll, sm>>

RemoveFile(p, interleaved) ==
    /\ interleaved \/ Quiet
    /\ edits < MaxEdits
    /\ exists(fs, p)
    /\ fs' = [q \in DOMAIN fs \ {p} |-> fs[q]]
    /\ edits' = edits + 1
    /\ wk' = Touch(wk, p, "env")
    /\ last' = [last EXCEPT ![p] = None]
    /\ UNCHANGED <<db, issued, call, res, pm, bt, poll, sm>>

(***************************************************************************)
(* delete_image_and_faces called by a file operation or by the cleanup;    *)
(* call records the path, the value returned, whether the path had a row   *)
(* of images before the call, and how many rows of face_encodings written  *)
(* for the path the store held when the call returned.                     *)
(***************************************************************************)
DeleteImage(p, fault, interleaved) ==
    LET r == delete_image_and_faces(db, p, fault)
    IN  /\ interleaved \/ Quiet
        /\ db' = r.db
        /\ call' = [op |-> "delete_image_and_faces", path |-> p, ret |-> r.ret,
                    had |-> get_image_by_path(db, p, FALSE) # None,
                    gone |-> get_image_by_path(r.db, p, FALSE) = None,
                    left |-> Cardinality(View(r.db, issued, p).rows)]
        /\ wk' = IF r.db = db THEN wk ELSE Touch(wk, p, "env")
        /\ last' = IF r.db = db THEN last ELSE [last EXCEPT ![p] = None]
        /\ UNCHANGED <<fs, issued, edits, res, pm, bt, poll, sm>>

(***************************************************************************)
(* photo_manager.py, index_images_batch and get_indexing_progress.  The    *)
(* threads of the pool run index_image; the calling thread runs the loop   *)
(* over the completed futures.                                             *)
(***************************************************************************)
NoBatch ==
    [pc |-> "idle", image_paths |-> <<>>, max_workers |-> 0, results |-> <<>>,
     k |-> 0, successful |-> 0, failed |-> 0, result |-> None, stop_at |-> -1]

\* sync_manager.py, GoogleDriveSyncManager.__init__ (lines 33-41), and no
\* sync_drive_folder call in progress.
NoSync ==
    [stop_sync |-> FALSE, status |-> "idle", current |-> 0, total |-> 0,
     pc |-> "idle", folder_id |-> "", folder_name |-> "", image_files |-> <<>>,
     i |-> 0, synced_count |-> 0, failed_count |-> 0, result |-> None,
     stop_at |-> -1]

InitBatchVars ==
    /\ pm = [indexing_progress |-> 0, indexing_total |-> 0,
             indexing_lock |-> "free", access |-> None]
    /\ bt = NoBatch
    /\ poll = [pc |-> "idle", current |-> 0, total |-> 0, prev |-> -1,
               within |-> FALSE]
    /\ sm = NoSync

\* The threads of ThreadPoolExecutor(max_workers).
Pool(max_workers) == IF max_workers = 1 THEN {"w1"} ELSE Workers

\* How many of the submitted calls have begun: those that have completed and
\* those that a thread of the pool is running.
started(b) == Len(b.results) + Cardinality({w \in Workers : wk[w].pc # "idle"})

InCall == bt.pc \notin {"idle", "returned"}

Access(by, line) == [by |-> by, line |-> line, lock |-> pm.indexing_lock]

\* Line 96: indexing_total is set, the lock not taken.
BatchCall(image_paths, max_workers) ==
    /\ bt.pc = "idle"
    /\ Quiet
    /\ pm' = [pm EXCEPT !.indexing_total = Len(image_paths),
                        !.access = Access("batch", 96)]
    /\ bt' = [NoBatch EXCEPT !.pc = "reset", !.image_paths = image_paths,
                             !.max_workers = max_workers]
    /\ poll' = [poll EXCEPT !.within = FALSE, !.prev = -1]
    /\ UNCHANGED <<fs, db, issued, wk, last, edits, call, res, sm>>

\* Line 97: indexing_progress is reset, the lock not taken; then every path is
\* submitted to the pool (lines 99-104).
BatchReset ==
    /\ bt.pc = "reset"
    /\ pm' = [pm EXCEPT !.indexing_progress = 0, !.access = Access("batch", 97)]
    /\ bt' = [bt EXCEPT !.pc = "run"]
    /\ UNCHANGED <<fs, db, issued, wk, last, edits, call, res, poll, sm>>

\* A free thread of the pool takes the next submitted call.
PoolStart(w) ==
    /\ bt.pc \in {"run", "incr"}
    /\ w \in Pool(bt.max_workers)
    /\ started(bt) < Len(bt.image_paths)
    /\ IndexStart(w, bt.image_paths[started(bt) + 1])

\* index_image has returned in thread w: its future is completed.
FutureDone(w) ==
    /\ InCall
    /\ wk[w].pc = "done"
    /\ bt' = [bt EXCEPT !.results = Append(@, [path |-> wk[w].path, ret |-> wk[w].ret])]
    /\ last' = [last EXCEPT ![wk[w].path] =
                  IF wk[w].stale THEN None
                  ELSE [ret |-> wk[w].ret,
                        view |-> View(db, issued, wk[w].path)]]
    /\ wk' = [wk EXCEPT ![w] = Idle]
    /\ UNCHANGED <<fs, db, issued, edits, call, res, pm, poll, sm>>

\* Lines 110-117: index_image catches every exception, so future.result()
\* returns its value.
tally(b, result) ==
    IF result THEN [b EXCEPT !.successful = @ + 1]
    ELSE [b EXCEPT !.failed = @ + 1]

\* One turn of the loop of lines 107-121, up to the acquisition of the lock.
BatchTally ==
    /\ bt.pc = "run"
    /\ bt.k < Len(bt.results)
    /\ pm.indexing_lock = "free"
    /\ bt' = [tally(bt, bt.results[bt.k + 1].ret) EXCEPT !.pc = "incr"]
    /\ pm' = [pm EXCEPT !.indexing_lock = "batch"]
    /\ UNCHANGED <<fs, db, issued, wk, last, edits, call, res, poll, sm>>

\* Line 121 and the release of the lock.
BatchIncr ==
    /\ bt.pc = "incr"
    /\ pm' = [pm EXCEPT !.indexing_progress = @ + 1, !.indexing_lock = "free",
                        !.access = Access("batch", 121)]
    /\ bt' = [bt EXCEPT !.pc = "run", !.k = @ + 1]
    /\ UNCHANGED <<fs, db, issued, wk, last, edits, call, res, poll, sm>>

\* A variant that leaves the loop after the first future.
as_completed_first(b) == b.k >= 1

\* as_completed has yielded every future.
as_completed_exhausted(b) == b.k = Len(b.image_paths)

\* The exit of the with block: shutdown(wait=True).
shutdown_wait(b) == started(b) = Len(b.image_paths) /\ Quiet

\* Lines 123-128: the return value, the progress fields read without the lock.
BatchExit ==
    /\ bt.pc = "run"
    /\ as_completed_exhausted(bt)
    /\ shutdown_wait(bt)
    /\ bt' = [bt EXCEPT !.pc = "returned",
                        !.result = [total |-> pm.indexing_total,
                                    successful |-> bt.successful,
                                    failed |-> bt.failed,
                                    progress |-> pm.indexing_progress]]
    /\ pm' = [pm EXCEPT !.access = Access("batch", 124)]
    /\ UNCHANGED <<fs, db, issued, wk, last, edits, call, res, poll, sm>>

\* The caller takes the dictionary returned.
BatchReturn ==
    /\ bt.pc = "returned"
    /\ bt' = NoBatch
    /\ UNCHANGED <<fs, db, issued, wk, last, edits, call, res, pm, poll, sm>>

\* get_indexing_progress (lines 130-136): the lock is taken,
PollLock ==
    /\ poll.pc = "idle"
    /\ pm.indexing_lock = "free"
    /\ poll' = [poll EXCEPT !.pc = "locked"]
    /\ pm' = [pm EXCEPT !.indexing_lock = "poller"]
    /\ UNCHANGED <<fs, db, issued, wk, last, edits, call, res, bt, sm>>

\* the two fields are read and the lock is released.
PollRead ==
    /\ poll.pc = "locked"
    /\ poll' = [pc |-> "idle", current |-> pm.indexing_progress,
                total |-> pm.indexing_total,
                prev |-> IF poll.within THEN poll.current ELSE -1,
                within |-> InCall]
    /\ pm' = [pm EXCEPT !.indexing_lock = "free", !.access = Access("poller", 136)]
    /\ UNCHANGED <<fs, db, issued, wk, last, edits, call, res, bt, sm>>

\* sync_manager.py, stop_sync (lines 48-50), the stop request of the
\* program; index_images_batch reads no flag.
StopRequest ==
    /\ InCall
    /\ bt.stop_at = -1
    /\ sm' = [sm EXCEPT !.stop_sync = TRUE]
    /\ bt' = [bt EXCEPT !.stop_at = Len(bt.results)]
    /\ UNCHANGED <<fs, db, issued, wk, last, edits, call, res, pm, poll>>

(***************************************************************************)
(* The indexing specification: the threads of the pipeline, the            *)
(* environment and the deletions, without storage faults (Spec) and with   *)
(* them (SpecFault).                                                       *)
(***************************************************************************)
File(t, c) == [mtime |-> t, content |-> c]

Init ==
    /\ fs \in {f \in [IndexPaths -> {File(1, c) : c \in Contents}] :
                  f[FileG].content = NoFaces}
    /\ db = init_database
    /\ issued = <<>>
    /\ wk = [w \in Workers |-> Idle]
    /\ last = [p \in AllPaths |-> None]
    /\ edits = 0
    /\ call = None
    /\ res = None
    /\ InitBatchVars

\* The steps of the threads in Threads on the files Paths, with storage
\* faults drawn from Faults; the environment and the deletions act between
\* any two steps when Interleaved, and only between two index_image calls
\* otherwise.
Step(Threads, Paths, Faults, Interleaved) ==
    \/ \E w \in Threads, p \in Paths : IndexStart(w, p)
    \/ \E w \in Threads, fault \in Faults : IndexCheck(w, fault)
    \/ \E w \in Threads : IndexExtract(w)
    \/ \E w \in Threads, fault \in Faults : IndexUpsert(w, fault)
    \/ \E w \in Threads, fault \in Faults : IndexAddFace(w, fault)
    \/ \E w \in Threads : IndexReturn(w)
    \/ \E p \in Paths, t \in Times, c \in Contents : WriteFile(p, t, c, Interleaved)
    \/ \E p \in Paths : RemoveFile(p, Interleaved)
    \/ \E p \in Paths, fault \in Faults : DeleteImage(p, fault, Interleaved)

\* One indexing thread at a time (the sync loop, or a batch of one worker as the
\* web application runs it), no storage fault.
Next == Step({"w1"}, IndexPaths, {FALSE}, TRUE)

Spec == Init /\ [][Next]_vars

\* The same with storage faults.
NextFault == Step({"w1"}, IndexPaths, BOOLEAN, TRUE)

SpecFault == Init /\ [][NextFault]_vars

\* Sequential use of one path with storage faults.
NextStore == Step({"w1"}, {FileA}, BOOLEAN, FALSE)

SpecStore == Init /\ [][NextStore]_vars

\* Strictly sequential use: index_image calls, deletions and changes of the
\* files one after the other, no storage fault.
NextSeq == Step({"w1"}, IndexPaths, {FALSE}, FALSE)

SpecSeq == Init /\ [][NextSeq]_vars

(***************************************************************************)
(* The search specification: a user adds and removes search folders, has   *)
(* images indexed, and searches; res holds the arguments and the result of *)
(* the search until the caller has taken it.                               *)
(***************************************************************************)
Queries == {0, 100}
Tolerances == {DefaultTolerance, 45}
MinSimilarities == {DefaultMinSimilarity, 30}

AddSearchFolder(folder, fault) ==
    /\ db.seq.search_folders < MaxFolderRows
    /\ db' = add_search_folder(db, folder, fault).db
    /\ UNCHANGED <<fs, issued, wk, last, edits, call, res, pm, bt, poll, sm>>

RemoveSearchFolder(folder, fault) ==
    /\ db' = remove_search_folder(db, folder, fault).db
    /\ db' # db
    /\ UNCHANGED <<fs, issued, wk, last, edits, call, res, pm, bt, poll, sm>>

Search(q, tolerance, min_similarity, restrict, fault) ==
    /\ res' = [op |-> "search_similar_faces", reference_encoding |-> q,
               tolerance |-> tolerance, min_similarity |-> min_similarity,
               restrict_to_current_folder |-> restrict,
               matches |-> search_similar_faces(db, q, tolerance, min_similarity, restrict, fault)]
    /\ UNCHANGED <<fs, db, issued, wk, last, edits, call, pm, bt, poll, sm>>

SearchReturn ==
    /\ res # None
    /\ res' = None
    /\ UNCHANGED <<fs, db, issued, wk, last, edits, call, pm, bt, poll, sm>>

InitSearch ==
    /\ fs = (FileA :> File(1, TwoFaces)) @@ (FileC :> File(1, NearFaces))
               @@ (FileD :> File(1, FarFace))
    /\ db = init_database
    /\ issued = <<>>
    /\ wk = [w \in Workers |-> Idle]
    /\ last = [p \in AllPaths |-> None]
    /\ edits = 0
    /\ call = None
    /\ res = None
    /\ InitBatchVars

NextSearch ==
    \/ \E p \in SearchPaths : res = None /\ IndexStart("w1", p)
    \/ res = None /\ IndexCheck("w1", FALSE)
    \/ res = None /\ IndexExtract("w1")
    \/ res = None /\ IndexUpsert("w1", FALSE)
    \/ res = None /\ IndexAddFace("w1", FALSE)
    \/ res = None /\ IndexReturn("w1")
    \/ \E folder \in Folders : res = None /\ AddSearchFolder(folder, FALSE)
    \/ \E folder \in Folders : res = None /\ RemoveSearchFolder(folder, FALSE)
    \/ \E q \in Queries, t \in Tolerances, m \in MinSimilarities, r \in BOOLEAN :
          res = None /\ Quiet /\ Search(q, t, m, r, FALSE)
    \/ SearchReturn

SpecSearch == InitSearch /\ [][NextSearch]_vars

(***************************************************************************)
(* The file-operation specification: images are indexed, and copy_files    *)
(* and move_files transfer lists of files to the folder /d, one source per *)
(* step.                                                                   *)
(***************************************************************************)
RECURSIVE SeqsUpTo(_, _)
SeqsUpTo(S, n) ==
    IF n = 0 THEN {<<>>}
    ELSE LET shorter == SeqsUpTo(S, n - 1)
         IN  shorter \cup {Append(q, x) : q \in shorter, x \in S}

SourceLists == SeqsUpTo(SourcePaths, MaxSources) \ {<<>>}

\* Lines 199-204 (240-245).
FileOpBegin(op, source_paths, destination_folder) ==
    /\ res = None
    /\ Quiet
    /\ Cardinality(DOMAIN fs) + Len(source_paths) <= MaxFiles
    /\ fs' = IF exists(fs, destination_folder) THEN fs
             ELSE makedirs(fs, destination_folder)
    /\ res' = [op |-> op, source_paths |-> source_paths,
               destination_folder |-> destination_folder, k |-> 0, pc |-> "loop",
               successful |-> 0, failed |-> 0, errors |-> <<>>,
               targets |-> <<>>, overwrote |-> FALSE, log |-> <<>>]
    /\ UNCHANGED <<db, issued, wk, last, edits, call, pm, bt, poll, sm>>

FileOpRunning(op) == res # None /\ res.op = op /\ res.pc = "loop"

Advance(r) ==
    [r EXCEPT !.k = @ + 1,
              !.pc = IF r.k + 1 = Len(r.source_paths) THEN "done" ELSE "loop"]

\* History of one turn of the loop: the path, whether it was counted under
\* successful, where it went, whether the file existed before the turn and what
\* the store held for the path before the turn.
Entry(r, ok, dest_path) ==
    LET path == r.source_paths[r.k + 1]
    IN  [path |-> path, ok |-> ok, dest |-> dest_path,
         existed |-> exists(fs, path), before |-> View(db, issued, path)]

Succeeded(r, dest_path) ==
    [Advance(r) EXCEPT !.successful = @ + 1,
                       !.targets = Append(@, dest_path),
                       !.overwrote = @ \/ exists(fs, dest_path),
                       !.log = Append(@, Entry(r, TRUE, dest_path))]

Failed(r, error) ==
    [Advance(r) EXCEPT !.failed = @ + 1, !.errors = Append(@, error),
                       !.log = Append(@, Entry(r, FALSE, None))]

\* One turn of the loop of copy_files (lines 206-228).
CopyStep ==
    /\ FileOpRunning("copy_files")
    /\ LET source_path == res.source_paths[res.k + 1]
           dest_path == choose_dest_path(fs, source_path, res.destination_folder)
       IN  IF ~exists(fs, source_path)
           THEN /\ res' = Failed(res, <<"File not found", source_path>>)
                /\ fs' = fs
           ELSE /\ fs' = copy2(fs, source_path, dest_path)
                /\ res' = Succeeded(res, dest_path)
    /\ UNCHANGED <<db, issued, wk, last, edits, call, pm, bt, poll, sm>>

\* One turn of the loop of move_files (lines 247-272): the move, then
\* delete_image_and_faces of the source path, its return value dropped.
MoveStep(fault) ==
    /\ FileOpRunning("move_files")
    /\ LET source_path == res.source_paths[res.k + 1]
           dest_path == choose_dest_path(fs, source_path, res.destination_folder)
           r == delete_image_and_faces(db, source_path, fault)
       IN  IF ~exists(fs, source_path)
           THEN /\ res' = Failed(res, <<"File not found", source_path>>)
                /\ UNCHANGED <<fs, db, call, last>>
           ELSE /\ fs' = move(fs, source_path, dest_path)
                /\ db' = r.db
                /\ call' = [op |-> "delete_image_and_faces", path |-> source_path,
                            ret |-> r.ret,
                            had |-> get_image_by_path(db, source_path, FALSE) # None,
                            gone |-> get_image_by_path(r.db, source_path, FALSE) = None,
                            left |-> Cardinality(View(r.db, issued, source_path).rows)]
                /\ last' = [last EXCEPT ![source_path] = None]
                /\ res' = Succeeded(res, dest_path)
    /\ UNCHANGED <<issued, wk, edits, pm, bt, poll, sm>>

\* delete_files (lines 284-286).
DeleteFilesBegin(file_paths) ==
    /\ res = None
    /\ Quiet
    /\ res' = [op |-> "delete_files", source_paths |-> file_paths,
               destination_folder |-> None, k |-> 0, pc |-> "loop",
               successful |-> 0, failed |-> 0, errors |-> <<>>,
               targets |-> <<>>, overwrote |-> FALSE, log |-> <<>>]
    /\ UNCHANGED <<fs, db, issued, wk, last, edits, call, pm, bt, poll, sm>>

\* os.remove.
remove(f, file_path) == [q \in DOMAIN f \ {file_path} |-> f[q]]

\* One turn of the loop of delete_files (lines 288-302): the file is removed
\* when it exists, and delete_image_and_faces is called in both branches, its
\* return value dropped.
DeleteStep(fault) ==
    /\ FileOpRunning("delete_files")
    /\ LET file_path == res.source_paths[res.k + 1]
           r == delete_image_and_faces(db, file_path, fault)
       IN  /\ db' = r.db
           /\ call' = [op |-> "delete_image_and_faces", path |-> file_path,
                       ret |-> r.ret,
                       had |-> get_image_by_path(db, file_path, FALSE) # None,
                       gone |-> get_image_by_path(r.db, file_path, FALSE) = None,
                       left |-> Cardinality(View(r.db, issued, file_path).rows)]
           /\ last' = [last EXCEPT ![file_path] = None]
           /\ IF exists(fs, file_path)
              THEN /\ fs' = remove(fs, file_path)
                   /\ res' = [Advance(res) EXCEPT
                                 !.successful = @ + 1,
                                 !.log = Append(@, Entry(res, TRUE, None))]
              ELSE /\ fs' = fs
                   /\ res' = Failed(res, <<"File not found", file_path>>)
    /\ UNCHANGED <<issued, wk, edits, pm, bt, poll, sm>>

\* The loop of cleanup_database (lines 355-358) over the rows that
\* get_all_face_encodings returned, from row k on.
RECURSIVE cleanup_loop(_, _, _, _, _)
cleanup_loop(f, d, all_encodings, k, removed_count) ==
    IF k > Len(all_encodings) THEN [db |-> d, ret |-> removed_count]
    ELSE IF ~exists(f, all_encodings[k].file_path)
    THEN cleanup_loop(f, delete_image_and_faces(d, all_encodings[k].file_path, FALSE).db, all_encodings, k + 1, removed_count + 1)
    ELSE cleanup_loop(f, d, all_encodings, k + 1, removed_count)

\* cleanup_database (lines 346-365).
cleanup_database(f, d, fault) ==
    cleanup_loop(f, d, get_all_face_encodings(d, fault), 1, 0)

\* A call of cleanup_database; before is the store the call found.
CleanupDatabase(fault) ==
    LET r == cleanup_database(fs, db, fault)
    IN  /\ res = None
        /\ Quiet
        /\ db' = r.db
        /\ res' = [op |-> "cleanup_database", pc |-> "done",
                   removed_count |-> r.ret, before |-> db]
        /\ last' = [p \in AllPaths |->
                      IF View(r.db, issued, p) = View(db, issued, p)
                      THEN last[p] ELSE None]
        /\ UNCHANGED <<fs, issued, wk, edits, call, pm, bt, poll, sm>>

\* The caller takes the value returned.
FileOpReturn ==
    /\ res # None
    /\ res.op \in {"copy_files", "move_files", "delete_files", "cleanup_database"}
    /\ res.pc = "done"
    /\ res' = None
    /\ UNCHANGED <<fs, db, issued, wk, last, edits, call, pm, bt, poll, sm>>

InitFiles ==
    /\ fs \in {(FileSX :> File(1, OneFace)) @@ (FileTX :> File(2, TwoFaces))
                  @@ (FileSX1 :> File(1, NoFaces)) @@ extra :
               extra \in {<<>>,
                          (DirD :> File(1, Directory)),
                          (DirD :> File(1, Directory)) @@ (FileDX :> File(1, Corrupt))}}
    /\ db = init_database
    /\ issued = <<>>
    /\ wk = [w \in Workers |-> Idle]
    /\ last = [p \in AllPaths |-> None]
    /\ edits = 0
    /\ call = None
    /\ res = None
    /\ InitBatchVars

NextFiles ==
    \/ \E p \in IndexedSources : res = None /\ IndexStart("w1", p)
    \/ res = None /\ IndexCheck("w1", FALSE)
    \/ res = None /\ IndexExtract("w1")
    \/ res = None /\ IndexUpsert("w1", FALSE)
    \/ res = None /\ IndexAddFace("w1", FALSE)
    \/ res = None /\ IndexReturn("w1")
    \/ \E op \in {"copy_files", "move_files"}, paths \in SourceLists :
          FileOpBegin(op, paths, DirD)
    \/ CopyStep
    \/ MoveStep(FALSE)
    \/ FileOpReturn

SpecFiles == InitFiles /\ [][NextFiles]_vars

(***************************************************************************)
(* The maintenance specification: images are indexed, files are written    *)
(* and removed, and move_files, delete_files and cleanup_database run, one *)
(* call at a time, no storage fault.                                       *)
(***************************************************************************)
PathLists == SeqsUpTo(IndexPaths, MaxSources) \ {<<>>}

NextOps ==
    \/ res = None /\ NextSeq
    \/ \E paths \in PathLists : FileOpBegin("move_files", paths, DirD)
    \/ \E paths \in PathLists : DeleteFilesBegin(paths)
    \/ MoveStep(FALSE)
    \/ DeleteStep(FALSE)
    \/ CleanupDatabase(FALSE)
    \/ FileOpReturn

SpecOps == Init /\ [][NextOps]_vars

(***************************************************************************)
(* The batch specification: index_images_batch calls, one at a time, on    *)
(* lists of paths with repetitions, with one or two threads in the pool.   *)
(***************************************************************************)
BatchLists == SeqsUpTo(IndexPaths, MaxBatch) \ {<<>>}

InitBatch ==
    /\ fs = (FileA :> File(1, TwoFaces)) @@ (FileG :> File(1, NoFaces))
    /\ db = init_database
    /\ issued = <<>>
    /\ wk = [w \in Workers |-> Idle]
    /\ last = [p \in AllPaths |-> None]
    /\ edits = 0
    /\ call = None
    /\ res = None
    /\ InitBatchVars

\* The steps of a batch that has been called.
BatchSteps ==
    \/ BatchReset
    \/ \E w \in Workers : PoolStart(w)
    \/ \E w \in Workers : IndexCheck(w, FALSE)
    \/ \E w \in Workers : IndexExtract(w)
    \/ \E w \in Workers : IndexUpsert(w, FALSE)
    \/ \E w \in Workers : IndexAddFace(w, FALSE)
    \/ \E w \in Workers : FutureDone(w)
    \/ BatchTally
    \/ BatchIncr
    \/ BatchExit
    \/ BatchReturn

NextBatch ==
    \/ \E paths \in BatchLists, max_workers \in 1..2 : BatchCall(paths, max_workers)
    \/ BatchSteps

SpecBatch == InitBatch /\ [][NextBatch]_vars

\* gui_interface.py, index_all_folders and _index_folders_background (lines
\* 519-559; web_app.py lines 465-478 with max_workers = 1): the active folders
\* are scanned and the images found are indexed as one batch.
IndexFolders(max_workers) ==
    LET folders == get_search_folders(db, FALSE)
        image_files == scan_folders_for_images(fs, folders)
    IN  /\ folders # <<>>
        /\ image_files # <<>>
        /\ BatchCall(image_files, max_workers)

\* The scan specification: folders are added to the search scope and removed
\* from it, and the images found under the active folders are indexed in
\* batches.
InitScan ==
    /\ fs = (FileA :> File(1, OneFace)) @@ (FileG :> File(1, NoFaces))
               @@ (FileN :> File(1, OneFace))
    /\ db = init_database
    /\ issued = <<>>
    /\ wk = [w \in Workers |-> Idle]
    /\ last = [p \in AllPaths |-> None]
    /\ edits = 0
    /\ call = None
    /\ res = None
    /\ InitBatchVars

NextScan ==
    \/ \E folder \in ScanFolders : bt.pc = "idle" /\ AddSearchFolder(folder, FALSE)
    \/ \E folder \in ScanFolders : bt.pc = "idle" /\ RemoveSearchFolder(folder, FALSE)
    \/ \E max_workers \in 1..2 : IndexFolders(max_workers)
    \/ BatchSteps

SpecScan == InitScan /\ [][NextScan]_vars

\* The same with a thread polling get_indexing_progress and a stop request.
NextProgress ==
    \/ NextBatch
    \/ PollLock
    \/ PollRead
    \/ StopRequest

SpecProgress == InitBatch /\ [][NextProgress]_vars

(***************************************************************************)
(* The concurrent indexing specification: two threads run index_image on   *)
(* the same path while the file is rewritten at any moment, as in a batch  *)
(* whose list holds the path twice.                                        *)
(***************************************************************************)
NextConc ==
    \/ \E w \in Workers : IndexStart(w, FileA)
    \/ \E w \in Workers : IndexCheck(w, FALSE)
    \/ \E w \in Workers : IndexExtract(w)
    \/ \E w \in Workers : IndexUpsert(w, FALSE)
    \/ \E w \in Workers : IndexAddFace(w, FALSE)
    \/ \E w \in Workers : IndexReturn(w)
    \/ \E t \in Times, c \in {OneFace, TwoFaces} : WriteFile(FileA, t, c, TRUE)

SpecConc == InitBatch /\ [][NextConc]_vars

(***************************************************************************)
(* sync_manager.py, sync_drive_folder and _sync_local_webcam_folder, run   *)
(* by one thread, and stop_sync, called by another.  The fields status,    *)
(* current and total of sm are sync_progress; stop_at is the number of     *)
(* images whose processing had started when the stop was requested (-1:    *)
(* no request during the call).  The table drive_folders that              *)
(* _record_sync_folder writes is not part of the modelled store.           *)
(***************************************************************************)
WebcamId == "webcam_folder_hardcoded"
FolderIds == {WebcamId, "other"}
FolderNames == {"", "Webcam"}

image_extensions ==
    { <<".", "j", "p", "g">>, <<".", "j", "p", "e", "g">>, <<".", "p", "n", "g">>,
      <<".", "g", "i", "f">>, <<".", "b", "m", "p">>, <<".", "t", "i", "f", "f">>,
      <<".", "w", "e", "b", "p">> }

\* Lines 188-193: the entries of the folder whose lower-cased name ends with
\* one of the extensions.
webcam_image_files(f) ==
    listdir({p \in DOMAIN f : /\ dirname(p) = DirW
                              /\ f[p].content # Directory
                              /\ splitext(lower(p))[2] \in image_extensions})

\* The images of the call whose processing has started.
SyncStarted == sm.i + (IF wk["w1"].pc # "idle" /\ sm.pc = "loop" THEN 1 ELSE 0)

InSync == sm.pc \notin {"idle", "returned"}

\* sync_drive_folder is invoked.
SyncCall(folder_id, folder_name) ==
    /\ sm.pc = "idle"
    /\ Quiet
    /\ sm' = [sm EXCEPT !.pc = "called", !.folder_id = folder_id,
                        !.folder_name = folder_name, !.image_files = <<>>,
                        !.i = 0, !.synced_count = 0, !.failed_count = 0,
                        !.result = None, !.stop_at = -1]
    /\ UNCHANGED <<fs, db, issued, wk, last, edits, call, res, pm, bt, poll>>

\* Lines 134-142: sync_progress is reset and the stop flag is cleared.
SyncInit ==
    /\ sm.pc = "called"
    /\ sm' = [sm EXCEPT !.pc = "dispatch", !.status = "starting",
                        !.current = 0, !.total = 0, !.stop_sync = FALSE]
    /\ UNCHANGED <<fs, db, issued, wk, last, edits, call, res, pm, bt, poll>>

\* Lines 144-171: without a folder name drive_service.get_file_info is called,
\* which may raise (handler of lines 163-171); the webcam folder id goes on to
\* _sync_local_webcam_folder; any other id returns an empty result.
SyncDispatch(raises) ==
    /\ sm.pc = "dispatch"
    /\ raises => sm.folder_name = ""
    /\ sm' = IF raises
             THEN [sm EXCEPT !.pc = "returned", !.status = "error",
                             !.result = [success |-> FALSE]]
             ELSE IF sm.folder_id = WebcamId
             THEN [sm EXCEPT !.pc = "webcam"]
             ELSE [sm EXCEPT !.pc = "returned",
                             !.result = [success |-> TRUE, synced_count |-> 0,
                                         failed_count |-> 0, total_count |-> 0]]
    /\ UNCHANGED <<fs, db, issued, wk, last, edits, call, res, pm, bt, poll>>

\* Lines 181-203.
SyncWebcam ==
    /\ sm.pc = "webcam"
    /\ sm' = IF ~folder_exists(fs, DirW)
             THEN [sm EXCEPT !.pc = "returned", !.result = [success |-> FALSE]]
             ELSE [sm EXCEPT !.pc = "loop",
                             !.image_files = webcam_image_files(fs),
                             !.total = Len(webcam_image_files(fs)),
                             !.status = "syncing"]
    /\ UNCHANGED <<fs, db, issued, wk, last, edits, call, res, pm, bt, poll>>

\* Lines 210-216: the flag is clear and an image is left: index_image is
\* called.
SyncStart ==
    /\ sm.pc = "loop"
    /\ sm.i < Len(sm.image_files)
    /\ ~sm.stop_sync
    /\ IndexStart("w1", sm.image_files[sm.i + 1])

\* Lines 217-234: index_image has returned; the counters and current are
\* updated.
SyncIndexed ==
    /\ sm.pc = "loop"
    /\ wk["w1"].pc = "done"
    /\ sm' = [sm EXCEPT !.i = @ + 1, !.current = sm.i + 1,
                        !.synced_count = IF wk["w1"].ret THEN @ + 1 ELSE @,
                        !.failed_count = IF wk["w1"].ret THEN @ ELSE @ + 1]
    /\ last' = [last EXCEPT ![wk["w1"].path] =
                  IF wk["w1"].stale THEN None
                  ELSE [ret |-> wk["w1"].ret,
                        view |-> View(db, issued, wk["w1"].path)]]
    /\ wk' = [wk EXCEPT !["w1"] = Idle]
    /\ UNCHANGED <<fs, db, issued, edits, call, res, pm, bt, poll>>

\* Lines 211-213 and the end of the loop: the flag is set or no image is left.
SyncBreak ==
    /\ sm.pc = "loop"
    /\ wk["w1"].pc = "idle"
    /\ sm.i = Len(sm.image_files) \/ sm.stop_sync
    /\ sm' = [sm EXCEPT !.pc = "final"]
    /\ UNCHANGED <<fs, db, issued, wk, last, edits, call, res, pm, bt, poll>>

\* Lines 237-253.
SyncFinal ==
    /\ sm.pc = "final"
    /\ sm' = [sm EXCEPT !.pc = "returned",
                        !.status = IF sm.stop_sync THEN "cancelled" ELSE "completed",
                        !.result = [success |-> TRUE, synced_count |-> sm.synced_count,
                                    failed_count |-> sm.failed_count,
                                    total_count |-> Len(sm.image_files)]]
    /\ UNCHANGED <<fs, db, issued, wk, last, edits, call, res, pm, bt, poll>>

\* The caller has taken the result; sync_progress and the flag stay.
SyncReturn ==
    /\ sm.pc = "returned"
    /\ sm' = [sm EXCEPT !.pc = "idle"]
    /\ UNCHANGED <<fs, db, issued, wk, last, edits, call, res, pm, bt, poll>>

\* stop_sync (lines 48-50), called while a sync_drive_folder call is under way.
SyncStop ==
    /\ InSync
    /\ sm.stop_at = -1
    /\ sm' = [sm EXCEPT !.stop_sync = TRUE, !.stop_at = SyncStarted]
    /\ UNCHANGED <<fs, db, issued, wk, last, edits, call, res, pm, bt, poll>>

InitSync ==
    /\ fs \in {(FileA :> File(1, OneFace)),
               (FileW1 :> File(1, OneFace)) @@ (FileW2 :> File(1, NoFaces))}
    /\ db = init_database
    /\ issued = <<>>
    /\ wk = [w \in Workers |-> Idle]
    /\ last = [p \in AllPaths |-> None]
    /\ edits = 0
    /\ call = None
    /\ res = None
    /\ InitBatchVars

NextSync ==
    \/ \E folder_id \in FolderIds, folder_name \in FolderNames : SyncCall(folder_id, folder_name)
    \/ SyncInit
    \/ \E raises \in BOOLEAN : SyncDispatch(raises)
    \/ SyncWebcam
    \/ SyncStart
    \/ IndexCheck("w1", FALSE)
    \/ IndexExtract("w1")
    \/ IndexUpsert("w1", FALSE)
    \/ IndexAddFace("w1", FALSE)
    \/ SyncIndexed
    \/ SyncBreak
    \/ SyncFinal
    \/ SyncReturn
    \/ SyncStop

SpecSync == InitSync /\ [][NextSync]_vars

(***************************************************************************)
(* web_app.py, the requests index_folders and file_operations.  res holds  *)
(* the error response of a request, with the request and the state it met, *)
(* until the client has taken it; a request that passes the checks goes on *)
(* as the PhotoManager call it makes.                                      *)
(***************************************************************************)
\* jsonify({'error': ...}), 400.
ErrorResponse(op, request, error) ==
    /\ res' = [op |-> op, pc |-> "done", request |-> request, error |-> error,
               status |-> 400,
               before |-> [fs |-> fs, db |-> db, pm |-> pm, bt |-> bt, wk |-> wk]]
    /\ UNCHANGED <<fs, db, issued, wk, last, edits, call, pm, bt, poll, sm>>

\* A variant of lines 593-597 that looks at no file.
missing_files_unchecked(f, file_paths) == <<>>

\* Lines 593-597.
missing_files(f, file_paths) ==
    SelectSeq(file_paths, LAMBDA file_path : ~exists(f, file_path))

\* file_operations (lines 575-647).  The handler's os.makedirs of the
\* destination (lines 606-611, 624-629) is the one copy_files and move_files
\* make.
WebFileOperations(operation, file_paths, destination) ==
    LET request == [operation |-> operation, file_paths |-> file_paths,
                    destination |-> destination]
    IN  /\ res = None
        /\ bt.pc = "idle"
        /\ Quiet
        /\ IF file_paths = <<>>
           THEN ErrorResponse("file_operations", request, "No files selected")
           ELSE IF missing_files(fs, file_paths) # <<>>
           THEN ErrorResponse("file_operations", request, "Source files not found")
           ELSE IF operation = "copy" /\ destination # None
           THEN FileOpBegin("copy_files", file_paths, destination)
           ELSE IF operation = "move" /\ destination # None
           THEN FileOpBegin("move_files", file_paths, destination)
           ELSE IF operation = "delete"
           THEN DeleteFilesBegin(file_paths)
           ELSE ErrorResponse("file_operations", request, "Invalid operation")

\* index_folders (lines 462-491): without an active folder the request is
\* answered with an error; else the thread index_background is started, which
\* scans the folders and indexes what it finds with one worker.
WebIndexFolders ==
    /\ res = None
    /\ bt.pc = "idle"
    /\ Quiet
    /\ IF get_search_folders(db, FALSE) = <<>>
       THEN ErrorResponse("index_folders", None, "No folders to index")
       ELSE IndexFolders(1)

WebReturn ==
    /\ res # None
    /\ res.op \in {"file_operations", "index_folders"}
    /\ res' = None
    /\ UNCHANGED <<fs, db, issued, wk, last, edits, call, pm, bt, poll, sm>>

WebOperations == {"copy", "move", "delete", "rename"}
WebPaths == {FileA, FileC}
WebLists == SeqsUpTo(WebPaths, MaxSources)

InitWeb ==
    /\ fs = (FileA :> File(1, OneFace)) @@ (FileG :> File(1, NoFaces))
    /\ db = init_database
    /\ issued = <<>>
    /\ wk = [w \in Workers |-> Idle]
    /\ last = [p \in AllPaths |-> None]
    /\ edits = 0
    /\ call = None
    /\ res = None
    /\ InitBatchVars

NextWeb ==
    \/ \E operation \in WebOperations, file_paths \in WebLists, destination \in {None, DirD} :
          WebFileOperations(operation, file_paths, destination)
    \/ CopyStep
    \/ MoveStep(FALSE)
    \/ DeleteStep(FALSE)
    \/ FileOpReturn
    \/ WebIndexFolders
    \/ WebReturn
    \/ res = None /\ BatchSteps
    \/ res = None /\ bt.pc = "idle" /\ AddSearchFolder(DirP, FALSE)
    \/ res = None /\ bt.pc = "idle" /\ RemoveSearchFolder(DirP, FALSE)

SpecWeb == InitWeb /\ [][NextWeb]_vars

(***************************************************************************)
(* Properties of the indexing pipeline and the store.                      *)
(***************************************************************************)
Running(w) == wk[w].pc \notin {"idle", "done"}

\* The call of w is the second of two index_image calls in a row on a file
\* that exists and that nothing else has touched since the first call began.
SecondCall(w) ==
    /\ wk[w].pc # "idle"
    /\ wk[w].prev # None
    /\ exists(fs, wk[w].path)

NoOpSuccess(w) ==
    /\ ~wk[w].extracted
    /\ View(db, issued, wk[w].path) = wk[w].prev.view
    /\ wk[w].pc = "done" => wk[w].ret

C2_ExtractorFailure ==
    \A w \in Workers :
        wk[w].failed /\ wk[w].pc = "done" => ~wk[w].ret /\ wk[w].image_id = 0

\* C5: while index_image runs on a path, the store never holds an images row
\* for the path with face_count = n and fewer than n face_encodings rows of
\* that image (each method commits on its own, so a reader's query can see
\* every state between two steps).
C5_NoHalfWrittenImage ==
    \A w \in Workers :
        Running(w) =>
            LET rec == get_image_by_path(db, wk[w].path, FALSE)
                all == get_all_face_encodings(db, FALSE)
                mine == {k \in 1..Len(all) : all[k].file_path = wk[w].path}
            IN  rec # None => Cardinality(mine) >= rec.face_count

\* C6: in every quiescent state each row of face_encodings references the id
\* of an existing images row (a re-index removes the rows of the earlier pass).
C6_NoOrphanEncodings ==
    (\A w \in Workers : wk[w].pc = "idle") =>
        \A fe \in db.face_encodings : \E r \in db.images : r.id = fe.image_id

\* C7: when delete_image_and_faces(path) returns success, the store holds no
\* images row for the path and no face_encodings row written for it.
C7_CascadeDelete ==
    call # None /\ call.ret => call.gone /\ call.left = 0

\* C8: when index_image returns success after processing a file, the rows of
\* face_encodings attached to the new images row are face_count many, with
\* face indices 0..face_count-1, even if an add_face_encoding call failed.
C8_AllEncodingsStored ==
    \A w \in Workers :
        wk[w].pc = "done" /\ wk[w].ret /\ wk[w].image_id # 0 =>
            \A r \in db.images :
                r.id = wk[w].image_id =>
                    LET rows == {fe \in db.face_encodings : fe.image_id = r.id}
                    IN  /\ Cardinality(rows) = r.face_count
                        /\ {fe.face_index : fe \in rows} = 0..(r.face_count - 1)

\* C9: is_image_processed(path, t) is true iff an images row exists for path
\* whose stored modification time is >= t; after a file is indexed with
\* modification time m it is true for m and false for m + 1.
C9_Staleness ==
    /\ \A p \in IndexPaths, t \in 0..(MaxTime + 1) :
          is_image_processed(db, p, t, FALSE) <=>
              \E r \in db.images : r.file_path = p /\ r.modification_time >= t
    /\ \A w \in Workers :
          wk[w].image_id # 0 /\ (\E r \in db.images : r.id = wk[w].image_id) =>
              /\ is_image_processed(db, wk[w].path, wk[w].mtime, FALSE)
              /\ ~is_image_processed(db, wk[w].path, wk[w].mtime + 1, FALSE)

C9_Witness ==
    /\ \E w \in Workers :
          /\ wk[w].pc = "done" /\ wk[w].image_id # 0 /\ wk[w].mtime = MaxTime
          /\ \E r \in db.images : r.id = wk[w].image_id
          /\ ~is_image_processed(db, wk[w].path, wk[w].mtime + 1, FALSE)
    /\ \E p \in IndexPaths : get_image_by_path(db, p, FALSE) = None

(***************************************************************************)
(* Properties of the search.                                               *)
(***************************************************************************)
Searched == res # None /\ res.op = "search_similar_faces"

\* The folders whose active flag is set.
ActiveFolders == {r.folder_path : r \in {x \in db.search_folders : x.is_active = 1}}

\* The scope of the search in res: every path when the search is not
\* restricted or no folder is active, else the paths under an active folder.
InScope(file_path) ==
    \/ ~res.restrict_to_current_folder
    \/ ActiveFolders = {}
    \/ \E f \in ActiveFolders : startswith(file_path, f)

StoredRows == get_all_face_encodings(db, FALSE)

Distance(row) == face_distance(row.encoding, res.reference_encoding)

PassesGates(row) ==
    /\ Distance(row) <= res.tolerance
    /\ One - Distance(row) >= res.min_similarity

Returned(row) ==
    \E k \in 1..Len(res.matches) :
        /\ res.matches[k].file_path = row.file_path
        /\ res.matches[k].face_index = row.face_index
        /\ res.matches[k].distance = Distance(row)

\* C3: search_similar_faces returns a stored row of the scope as a match iff
\* its distance d satisfies d <= tolerance and 1 - d >= min_similarity, and
\* returns nothing else.
C3_BothGates ==
    Searched =>
        /\ \A k \in 1..Len(StoredRows) :
              InScope(StoredRows[k].file_path) =>
                  (Returned(StoredRows[k]) <=> PassesGates(StoredRows[k]))
        /\ \A k \in 1..Len(res.matches) :
              \E j \in 1..Len(StoredRows) :
                  /\ StoredRows[j].file_path = res.matches[k].file_path
                  /\ StoredRows[j].face_index = res.matches[k].face_index
                  /\ PassesGates(StoredRows[j])

\* The example of the claim: rows at distances 0.3, 0.5 and 0.7, tolerance 0.6,
\* min_similarity 0.55, and the result is the row at distance 0.3 alone.
C3_Witness ==
    /\ Searched
    /\ res.tolerance = DefaultTolerance
    /\ res.min_similarity = DefaultMinSimilarity
    /\ {Distance(StoredRows[k]) : k \in 1..Len(StoredRows)} = {30, 50, 70}
    /\ Len(StoredRows) = 3
    /\ \A k \in 1..Len(StoredRows) : InScope(StoredRows[k].file_path)
    /\ Len(res.matches) = 1
    /\ res.matches[1].distance = 30

\* C4: a restricted search with a non-empty set S of active folders returns
\* only matches whose file path starts with an element of S and drops no
\* qualifying row under S; with S empty it returns what the unrestricted
\* search returns.
C4_ScopeFilter ==
    Searched /\ res.restrict_to_current_folder =>
        /\ ActiveFolders # {} =>
              /\ \A k \in 1..Len(res.matches) :
                    \E f \in ActiveFolders : startswith(res.matches[k].file_path, f)
              /\ \A k \in 1..Len(StoredRows) :
                    /\ PassesGates(StoredRows[k])
                    /\ \E f \in ActiveFolders : startswith(StoredRows[k].file_path, f)
                    => Returned(StoredRows[k])
        /\ ActiveFolders = {} =>
              res.matches = search_similar_faces(db, res.reference_encoding, res.tolerance, res.min_similarity, FALSE, FALSE)

\* A restricted search under /p that keeps a row of /pq (a string prefix) and
\* drops a qualifying row of /r.
C4_Witness ==
    /\ Searched /\ res.restrict_to_current_folder
    /\ ActiveFolders = {DirP}
    /\ \E k \in 1..Len(res.matches) : res.matches[k].file_path = FileC
    /\ \E k \in 1..Len(StoredRows) :
          StoredRows[k].file_path = FileD /\ PassesGates(StoredRows[k])

(***************************************************************************)
(* Properties of the file operations.                                      *)
(***************************************************************************)
Transferring == res # None /\ res.op \in {"copy_files", "move_files"}

Range(q) == {q[k] : k \in 1..Len(q)}

\* The transfers made so far went to pairwise distinct paths, and each of
\* these paths holds a file.
DistinctDestinationFiles ==
    /\ Cardinality(Range(res.targets)) = res.successful
    /\ \A k \in 1..Len(res.targets) : exists(fs, res.targets[k])

\* C10 as claimed: copy_files and move_files never write to a path that
\* exists, and k successful transfers leave k distinct destination files.
C10_NeverOverwritesAsClaimed ==
    Transferring =>
        /\ ~res.overwrote
        /\ Len(res.targets) = res.successful
        /\ DistinctDestinationFiles

SourcesOutsideDestination ==
    \A k \in 1..Len(res.source_paths) :
        dirname(res.source_paths[k]) # res.destination_folder

\* C10 as amended: copy_files and move_files never write to a path that
\* exists; k successful transfers of copy_files, and k successful transfers
\* of move_files when no source lies in the destination folder, leave k
\* distinct destination files.
C10_NeverOverwrites ==
    Transferring =>
        /\ ~res.overwrote
        /\ Len(res.targets) = res.successful
        /\ res.successful + res.failed = res.k
        /\ res.op = "copy_files" \/ SourcesOutsideDestination =>
              DistinctDestinationFiles

\* Two distinct sources of the same base name, and a destination that held
\* that name already, end as three distinct files of the destination.
C10_Witness ==
    /\ Transferring /\ res.pc = "done"
    /\ res.source_paths = <<FileSX, FileTX>>
    /\ res.successful = 2
    /\ res.targets = <<DirD \o <<"/", "x", "_", "1">> \o ExtJpg,
                       DirD \o <<"/", "x", "_", "2">> \o ExtJpg>>
    /\ exists(fs, FileDX) /\ fs[FileDX].content = Corrupt
    /\ \A k \in 1..2 : exists(fs, res.targets[k])

(***************************************************************************)
(* Properties of the store after file operations and cleanup.              *)
(***************************************************************************)
\* The store holds no images row for the path and no face_encodings row
\* written for it.
Absent(p) == View(db, issued, p) = [rec |-> None, rows |-> {}]

\* C11: for every path that move_files has moved, the store holds no images
\* row and no face_encodings row for the original path and none for the new
\* path; a path whose move failed keeps what the store held for it.
C11_MoveStoreEffects ==
    res # None /\ res.op = "move_files" =>
        \A k \in 1..Len(res.log) :
            IF res.log[k].ok
            THEN Absent(res.log[k].path) /\ Absent(res.log[k].dest)
            ELSE View(db, issued, res.log[k].path) = res.log[k].before

\* C12: for every path that delete_files has handled, the store holds no
\* images row and no face_encodings row for the path; the path is counted
\* under successful when its file existed and was removed, and under failed
\* with a "File not found" error when the file was absent.
C12_DeleteFiles ==
    res # None /\ res.op = "delete_files" =>
        /\ \A k \in 1..Len(res.log) :
              /\ Absent(res.log[k].path)
              /\ res.log[k].ok <=> res.log[k].existed
              /\ ~exists(fs, res.log[k].path)
        /\ res.successful = Cardinality({k \in 1..Len(res.log) : res.log[k].existed})
        /\ res.failed = Cardinality({k \in 1..Len(res.log) : ~res.log[k].existed})
        /\ res.errors = SelectSeq([k \in 1..Len(res.log) |-> IF res.log[k].existed THEN None ELSE <<"File not found", res.log[k].path>>], LAMBDA e : e # None)

\* C20: after cleanup_database has returned, the store holds no images row
\* and no face_encodings row of a path whose file is absent, and what it held
\* for the paths whose files exist is unchanged.
C20_Cleanup ==
    res # None /\ res.op = "cleanup_database" =>
        \A p \in AllPaths :
            IF exists(fs, p)
            THEN View(db, issued, p) = View(res.before, issued, p)
            ELSE Absent(p)

(***************************************************************************)
(* Properties of index_images_batch and get_indexing_progress.             *)
(***************************************************************************)
\* How many of the completed calls returned ret.
Returned_(ret) == Cardinality({k \in 1..Len(bt.results) : bt.results[k].ret = ret})

\* How many times path p occurs in the sequence of paths q.
Occurrences(q, p) == Cardinality({k \in 1..Len(q) : q[k] = p})

C14_Cancellation ==
    bt.stop_at # -1 => Len(bt.results) - bt.stop_at <= bt.max_workers

\* C15: every read and every write of indexing_progress and indexing_total is
\* made by a thread that holds indexing_lock.
C15_LockedAccess ==
    pm.access # None => pm.access.lock = pm.access.by

\* C16: within one index_images_batch call the value that a poller gets from
\* get_indexing_progress never decreases, it is the number of completed
\* images the loop has counted, and it equals total when the call returns.
C16_ProgressMonotonic ==
    /\ poll.within /\ poll.prev # -1 => poll.current >= poll.prev
    /\ bt.pc = "run" => pm.indexing_progress = bt.k
    /\ bt.pc = "returned" => bt.result.progress = bt.result.total

\* C29: every pair (current, total) that get_indexing_progress returns has
\* 0 <= current <= total.
C29_ProgressBounds ==
    0 <= poll.current /\ poll.current <= poll.total

\* C18: no two rows of face_encodings share (image_id, face_index), and the
\* rows that get_all_face_encodings returns for one file path have pairwise
\* distinct face indices.
C18_UniqueFaceIndex ==
    /\ \A a, b \in db.face_encodings :
          a.image_id = b.image_id /\ a.face_index = b.face_index => a = b
    /\ LET all == get_all_face_encodings(db, FALSE)
       IN  \A i, j \in 1..Len(all) :
              i # j /\ all[i].file_path = all[j].file_path =>
                  all[i].face_index # all[j].face_index

\* Two threads have indexed the same path at the same time: the rows of both
\* passes are in the store, under the two ids issued for the path.
C18_Witness ==
    /\ Len(issued) = 2 /\ issued[1] = issued[2]
    /\ \E w \in Workers : wk[w].pc = "faces" /\ wk[w].image_id = 1 /\ wk[w].i = 1
    /\ \E a, b \in db.face_encodings :
          a.image_id = 1 /\ b.image_id = 2 /\ a.face_index = b.face_index

\* C17: in a batch built from scan_folders_for_images over the active search
\* folders, no file path is submitted twice.
C17_DisjointPaths ==
    bt.pc # "idle" =>
        \A p \in AllPaths : Occurrences(bt.image_paths, p) <= 1

C21_StableId ==
    \A p \in IndexPaths \cup SearchPaths :
        LET image_record == get_image_by_path(db, p, FALSE)
        IN  image_record # None =>
                \A t \in Times, face_count \in 0..2 :
                    add_image_record(db, p, basename(p), 1, t, face_count, dirname(p), FALSE).ret
                        = <<image_record.id>>

\* The rows of search_folders of a folder path.
FolderRows(d, folder_path) == {r \in d.search_folders : r.folder_path = folder_path}

C23_ActiveFolderCount ==
    get_database_stats(db, FALSE).active_folders = Len(get_search_folders(db, FALSE))

\* C26: delete_image_and_faces of a path without an images row returns True
\* and leaves the store as it is; a second call in a row returns what the
\* first returned and leaves the store as the first left it.
C26_DeleteIdempotent ==
    \A p \in IndexPaths :
        LET once == delete_image_and_faces(db, p, FALSE)
            twice == delete_image_and_faces(once.db, p, FALSE)
        IN  /\ get_image_by_path(db, p, FALSE) = None =>
                  once = [db |-> db, ret |-> TRUE]
            /\ twice = once

\* delete_image_and_faces has been called for a path that was indexed and whose
\* row an earlier call had deleted: it returned True.
C26_Witness ==
    /\ call # None /\ call.op = "delete_image_and_faces"
    /\ ~call.had /\ call.ret /\ call.gone
    /\ \E k \in 1..Len(issued) : issued[k] = call.path
    /\ get_image_by_path(db, call.path, FALSE) = None

(***************************************************************************)
(* Properties of the search results.                                       *)
(***************************************************************************)
Thresholds == MinSimilarities \cup {0, One}

\* C24: for a fixed store, query, tolerance and scope, the matches found with
\* min_similarity b are among those found with min_similarity a <= b.
C24_ThresholdMonotone ==
    \A q \in Queries, tolerance \in Tolerances, restrict \in BOOLEAN :
        \A a, b \in Thresholds :
            a <= b =>
                LET with_a == search_similar_faces(db, q, tolerance, a, restrict, FALSE)
                    with_b == search_similar_faces(db, q, tolerance, b, restrict, FALSE)
                IN  /\ Range(with_b) \subseteq Range(with_a)
                    /\ Len(with_b) <= Len(with_a)

\* A search with the default thresholds has returned one match where the
\* lower threshold 0.3 gives more.
C24_Witness ==
    /\ Searched
    /\ res.tolerance = DefaultTolerance /\ res.min_similarity = DefaultMinSimilarity
    /\ Len(res.matches) = 1
    /\ Len(search_similar_faces(db, res.reference_encoding, res.tolerance, 30, res.restrict_to_current_folder, FALSE)) = 2

\* The stored rows that the search in res has to return.
Qualifying == {k \in 1..Len(StoredRows) : InScope(StoredRows[k].file_path) /\ PassesGates(StoredRows[k])}

\* C25: the matches are in non-increasing order of similarity, and they are
\* the qualifying rows, each once.
C25_SortedPermutation ==
    Searched =>
        /\ \A k \in 1..(Len(res.matches) - 1) :
              res.matches[k].similarity >= res.matches[k + 1].similarity
        /\ Len(res.matches) = Cardinality(Qualifying)
        /\ \A k \in Qualifying :
              Cardinality({j \in 1..Len(res.matches) :
                              /\ res.matches[j].file_path = StoredRows[k].file_path
                              /\ res.matches[j].face_index = StoredRows[k].face_index
                              /\ res.matches[j].similarity = One - Distance(StoredRows[k])}) = 1

\* A search has returned two matches of different similarity that the store
\* lists in the other order.
C25_Witness ==
    /\ Searched
    /\ Len(res.matches) >= 2
    /\ res.matches[1].similarity > res.matches[2].similarity
    /\ \E j, k \in 1..Len(StoredRows) :
          /\ j < k
          /\ StoredRows[j].file_path = res.matches[2].file_path
          /\ StoredRows[j].face_index = res.matches[2].face_index
          /\ StoredRows[k].file_path = res.matches[1].file_path
          /\ StoredRows[k].face_index = res.matches[1].face_index

(***************************************************************************)
(* Properties of the web requests.                                         *)
(***************************************************************************)
\* The request of a file_operations call fails a precondition: no path, a
\* source file that does not exist, or no valid operation.
PreconditionFails(request, f) ==
    \/ request.file_paths = <<>>
    \/ \E k \in 1..Len(request.file_paths) : ~exists(f, request.file_paths[k])
    \/ ~ \/ request.operation \in {"copy", "move"} /\ request.destination # None
         \/ request.operation = "delete"

\* C27: index_folders without an active folder and file_operations with an
\* empty path list, a missing source file or an invalid operation answer with an
\* error, and files, store, progress state and threads are as the request met
\* them; a file operation begins only with a non-empty list of existing files,
\* and a batch only with an active folder.
C27_PreconditionsFirst ==
    /\ res # None /\ res.op \in {"file_operations", "index_folders"} =>
          /\ res.status = 400
          /\ fs = res.before.fs /\ db = res.before.db /\ pm = res.before.pm
          /\ bt = res.before.bt /\ wk = res.before.wk
          /\ bt.pc = "idle" /\ Quiet
          /\ res.op = "file_operations" => PreconditionFails(res.request, fs)
          /\ res.op = "index_folders" => get_search_folders(db, FALSE) = <<>>
    /\ res # None /\ res.op \in {"copy_files", "move_files", "delete_files"} /\ res.k = 0 =>
          /\ res.source_paths # <<>>
          /\ \A k \in 1..Len(res.source_paths) : exists(fs, res.source_paths[k])
    /\ bt.pc = "reset" => get_search_folders(db, FALSE) # <<>>

\* A move request naming an indexed file and a file that does not exist has
\* been answered with an error; the indexed file and its record are in place.
C27_Witness ==
    /\ res # None /\ res.op = "file_operations"
    /\ res.request.operation = "move" /\ res.request.destination = DirD
    /\ res.request.file_paths = <<FileA, FileC>>
    /\ exists(fs, FileA) /\ ~exists(fs, FileC) /\ ~exists(fs, DirD)
    /\ get_image_by_path(db, FileA, FALSE) # None

(***************************************************************************)
(* Properties of the folder sync.                                          *)
(***************************************************************************)
\* C28: after a stop_sync request made during a sync_drive_folder call no
\* further image is started, and the call ends with status 'cancelled' (or
\* with 'error', if it failed).
C28_CooperativeStop ==
    sm.stop_at # -1 =>
        /\ SyncStarted <= sm.stop_at
        /\ sm.pc = "returned" => sm.status \in {"cancelled", "error"}

\* C30: when sync_drive_folder has returned, the status of sync_progress is
\* 'completed', 'cancelled' or 'error'.
C30_TerminalStatus ==
    sm.pc = "returned" => sm.status \in {"completed", "cancelled", "error"}

====
